---- MODULE Spec2Model ----
(***************************************************************************)
(* Model of the two leaf components of pam-client:                         *)
(*   - conv_mock.rs : the non-interactive ConversationHandler              *)
(*                    (struct Conversation, LogEntry)                      *)
(*   - error.rs     : the payload-carrying error ErrorWith<T> / Error      *)
(* The two components share no state.  SpecConv drives a Conversation,     *)
(* SpecError drives a pair of ErrorWith values.                            *)
(***************************************************************************)
EXTENDS Integers, Sequences, FiniteSets, TLC

VARIABLES username, password, log, sent, cret, errs, taken, eret

convVars == <<username, password, log, sent, cret>>
errVars == <<errs, taken, eret>>
vars == <<username, password, log, sent, cret, errs, taken, eret>>

(***************************************************************************)
(* Bounds of the model.                                                    *)
(***************************************************************************)
\* longest username / password / default user (String, in bytes)
MaxStrLen == 2
\* longest transcript
MaxLog == 2
\* payload values are 1..MaxPayload
MaxPayload == 2

(***************************************************************************)
(* Text.  A Rust String is a sequence of bytes that may hold NUL; a        *)
(* CString / CStr is a sequence of non-NUL bytes followed by one NUL.      *)
(***************************************************************************)
NUL == 0
Bytes == {NUL, 1}

SeqsUpTo(S, n) == UNION {[1..k -> S] : k \in 0..n}

Strings == SeqsUpTo(Bytes, MaxStrLen)

\* the messages the backend passes as &CStr: an empty and a non-empty text
CStrs == {<<NUL>>, <<1, NUL>>}

\* the data the backend passes to binary_prompt
BinaryData == {<<>>, <<1>>}

\* Option<T>
None == [some |-> FALSE]
Some(v) == [some |-> TRUE, val |-> v]

\* Result<T, E>
Ok(v) == [ok |-> TRUE, val |-> v]
Err(e) == [ok |-> FALSE, err |-> e]

\* CString::new(bytes): an interior NUL is an error, otherwise the bytes
\* are kept and the terminator is appended.
CStringNew(s) ==
    IF \E i \in 1..Len(s) : s[i] = NUL
    THEN Err("NulError")
    ELSE Ok(Append(s, NUL))

\* CStr::to_owned(): a copy of the same bytes, terminator included
to_owned(msg) == [i \in 1..Len(msg) |-> msg[i]]

\* CStr::to_bytes(): the text without its terminator
to_bytes(c) == SubSeq(c, 1, Len(c) - 1)

\* enum LogEntry
Info(c) == [tag |-> "Info", msg |-> c]
Error(c) == [tag |-> "Error", msg |-> c]

(***************************************************************************)
(* Conversation                                                            *)
(***************************************************************************)

\* errors() with the filter lost: every entry's text
RECURSIVE errors_unfiltered(_)
errors_unfiltered(l) ==
    IF l = <<>> THEN <<>>
    ELSE <<Head(l).msg>> \o errors_unfiltered(Tail(l))

\* errors(): filter_map over the log keeping the texts of the Error entries
RECURSIVE errors(_)
errors(l) ==
    IF l = <<>> THEN <<>>
    ELSE (IF Head(l).tag = "Info" THEN <<>> ELSE <<Head(l).msg>>)
         \o errors(Tail(l))

\* infos(): filter_map over the log keeping the texts of the Info entries
RECURSIVE infos(_)
infos(l) ==
    IF l = <<>> THEN <<>>
    ELSE (IF Head(l).tag = "Info" THEN <<Head(l).msg>> ELSE <<>>)
         \o infos(Tail(l))

\* Conversation::new()
Conversation_new ==
    /\ username = <<>>
    /\ password = <<>>
    /\ log = <<>>

\* Conversation::with_credentials(username, password)
with_credentials(u, p) ==
    /\ username = u
    /\ password = p
    /\ log = <<>>

\* clear_log that resets the whole handler
clear_log_reset ==
    /\ log' = <<>>
    /\ sent' = <<>>
    /\ username' = <<>>
    /\ password' = <<>>
    /\ cret' = [op |-> "clear_log"]

\* clear_log(&mut self)
clear_log ==
    /\ log' = <<>>
    /\ sent' = <<>>
    /\ cret' = [op |-> "clear_log"]
    /\ UNCHANGED <<username, password>>

\* a caller collecting errors()
call_errors ==
    /\ cret' = [op |-> "errors", val |-> errors(log)]
    /\ UNCHANGED <<username, password, log, sent>>

\* a caller collecting infos()
call_infos ==
    /\ cret' = [op |-> "infos", val |-> infos(log)]
    /\ UNCHANGED <<username, password, log, sent>>

\* init without the is_empty() test
init_overwrite(default_user) ==
    /\ username' = IF default_user.some THEN default_user.val ELSE username
    /\ cret' = [op |-> "init", arg |-> default_user]
    /\ UNCHANGED <<password, log, sent>>

\* init(&mut self, default_user: Option<&str>)
init(default_user) ==
    /\ username' = IF default_user.some
                   THEN (IF username = <<>> THEN default_user.val ELSE username)
                   ELSE username
    /\ cret' = [op |-> "init", arg |-> default_user]
    /\ UNCHANGED <<password, log, sent>>

\* prompt_echo_on(&mut self, _msg)
prompt_echo_on(msg) ==
    /\ cret' = [op |-> "prompt_echo_on",
                val |-> LET r == CStringNew(username)
                        IN IF r.ok THEN r ELSE Err("CONV_ERR")]
    /\ UNCHANGED <<username, password, log, sent>>

\* prompt_echo_off answering with the username
prompt_echo_off_username(msg) ==
    /\ cret' = [op |-> "prompt_echo_off",
                val |-> LET r == CStringNew(username)
                        IN IF r.ok THEN r ELSE Err("CONV_ERR")]
    /\ UNCHANGED <<username, password, log, sent>>

\* prompt_echo_off(&mut self, _msg)
prompt_echo_off(msg) ==
    /\ cret' = [op |-> "prompt_echo_off",
                val |-> LET r == CStringNew(password)
                        IN IF r.ok THEN r ELSE Err("CONV_ERR")]
    /\ UNCHANGED <<username, password, log, sent>>

\* text_info recording an Error entry
text_info_as_error(msg) ==
    /\ Len(log) < MaxLog
    /\ log' = Append(log, Error(to_owned(msg)))
    /\ sent' = Append(sent, <<"text_info", msg>>)
    /\ cret' = [op |-> "text_info"]
    /\ UNCHANGED <<username, password>>

\* text_info(&mut self, msg); sent is the history of messages received
\* since the last clear_log
text_info(msg) ==
    /\ Len(log) < MaxLog
    /\ log' = Append(log, Info(to_owned(msg)))
    /\ sent' = Append(sent, <<"text_info", msg>>)
    /\ cret' = [op |-> "text_info"]
    /\ UNCHANGED <<username, password>>

\* error_msg(&mut self, msg)
error_msg(msg) ==
    /\ Len(log) < MaxLog
    /\ log' = Append(log, Error(to_owned(msg)))
    /\ sent' = Append(sent, <<"error_msg", msg>>)
    /\ cret' = [op |-> "error_msg"]
    /\ UNCHANGED <<username, password>>

\* radio_prompt answering yes
radio_prompt_yes(msg) ==
    /\ cret' = [op |-> "radio_prompt", val |-> Ok(TRUE)]
    /\ UNCHANGED <<username, password, log, sent>>

\* radio_prompt(&mut self, _msg)
radio_prompt(msg) ==
    /\ cret' = [op |-> "radio_prompt", val |-> Ok(FALSE)]
    /\ UNCHANGED <<username, password, log, sent>>

\* ConversationHandler::binary_prompt, which Conversation does not override
binary_prompt(type, data) ==
    /\ cret' = [op |-> "binary_prompt", val |-> Err("CONV_ERR")]
    /\ UNCHANGED <<username, password, log, sent>>

(***************************************************************************)
(* ErrorWith<T>                                                            *)
(* A value is [ty, code, msg, payload]; ty is "NoPayload" for the alias    *)
(* Error = ErrorWith<NoPayload> and "T" for an inhabited payload type.     *)
(* Two values are followed, in the slots "x" and "y"; a slot that holds    *)
(* no value is NoValue.                                                    *)
(***************************************************************************)
Slots == {"x", "y"}
NoValue == [ty |-> "none"]

\* history of take_payload on the value held in a slot
NotTaken == [done |-> FALSE]
Taken(first) == [done |-> TRUE, first |-> first]

\* pam_sys ReturnCode (a part of the enumeration)
ReturnCode == {"SUCCESS", "ABORT", "PERM_DENIED"}

\* values of the payload type T
Payloads == 1..MaxPayload

\* what strerror(handle, code) can answer
StrErrors == {None, Some(""), Some("Critical error"), Some("Erreur critique")}

\* the functions handed to map()
Funcs == [Payloads -> Payloads]

\* code(&self)
code(e) == e.code

\* message(&self)
message(e) == IF e.msg = "" THEN None ELSE Some(e.msg)

\* payload(&self)
payload(e) == e.payload

\* Option<T>::eq
OptionEq(p, q) ==
    CASE (~p.some) /\ (~q.some) -> TRUE
      [] p.some /\ q.some -> p.val = q.val
      [] OTHER -> FALSE

\* equality over all three fields, as #[derive(PartialEq)] would give
ErrorWith_eq_derived(a, b) ==
    code(a) = code(b) /\ a.msg = b.msg /\ OptionEq(a.payload, b.payload)

\* impl PartialEq for ErrorWith<T>
ErrorWith_eq(a, b) == code(a) = code(b) /\ OptionEq(a.payload, b.payload)

\* with_payload without its assertion
with_payload_unchecked(s, c, r, p) ==
    /\ errs' = [errs EXCEPT ![s] =
                   [ty |-> "T", code |-> c,
                    msg |-> IF r.some THEN r.val ELSE "",
                    payload |-> p]]
    /\ taken' = [taken EXCEPT ![s] = NotTaken]
    /\ eret' = [op |-> "with_payload", slot |-> s, code |-> c, out |-> "value"]

\* ErrorWith::with_payload(handle, code, payload); r is strerror's answer
with_payload(s, c, r, p) ==
    IF c = "SUCCESS"
    THEN /\ eret' = [op |-> "with_payload", slot |-> s, code |-> c, out |-> "panic"]
         /\ UNCHANGED <<errs, taken>>
    ELSE /\ errs' = [errs EXCEPT ![s] =
                        [ty |-> "T", code |-> c,
                         msg |-> IF r.some THEN r.val ELSE "",
                         payload |-> p]]
         /\ taken' = [taken EXCEPT ![s] = NotTaken]
         /\ eret' = [op |-> "with_payload", slot |-> s, code |-> c, out |-> "value"]

\* Error::new(handle, code); r is strerror's answer
Error_new(s, c, r) ==
    IF c = "SUCCESS"
    THEN /\ eret' = [op |-> "new", slot |-> s, code |-> c, out |-> "panic"]
         /\ UNCHANGED <<errs, taken>>
    ELSE /\ errs' = [errs EXCEPT ![s] =
                        [ty |-> "NoPayload", code |-> c,
                         msg |-> IF r.some THEN r.val ELSE "",
                         payload |-> None]]
         /\ taken' = [taken EXCEPT ![s] = NotTaken]
         /\ eret' = [op |-> "new", slot |-> s, code |-> c, out |-> "value"]

\* impl TryFrom<ReturnCode> for Error
try_from(s, c) ==
    IF c = "SUCCESS"
    THEN /\ eret' = [op |-> "try_from", slot |-> s, code |-> c, val |-> Err("()")]
         /\ UNCHANGED <<errs, taken>>
    ELSE /\ errs' = [errs EXCEPT ![s] =
                        [ty |-> "NoPayload", code |-> c, msg |-> "", payload |-> None]]
         /\ taken' = [taken EXCEPT ![s] = NotTaken]
         /\ eret' = [op |-> "try_from", slot |-> s, code |-> c, val |-> Ok("Error")]

\* take_payload handing out a copy and leaving the payload in place
take_payload_keeps(s) ==
    /\ errs[s] # NoValue
    /\ eret' = [op |-> "take_payload", slot |-> s, val |-> errs[s].payload]
    /\ errs' = errs
    /\ taken' = [taken EXCEPT ![s] =
                     IF taken[s].done THEN taken[s] ELSE Taken(errs[s].payload)]

\* take_payload(&mut self); taken[s] keeps what the first take_payload on
\* the value in slot s returned
take_payload(s) ==
    /\ errs[s] # NoValue
    /\ IF errs[s].payload.some
       THEN /\ eret' = [op |-> "take_payload", slot |-> s, val |-> errs[s].payload]
            /\ errs' = [errs EXCEPT ![s].payload = None]
       ELSE /\ eret' = [op |-> "take_payload", slot |-> s, val |-> None]
            /\ errs' = errs
    /\ taken' = [taken EXCEPT ![s] =
                     IF taken[s].done THEN taken[s] ELSE Taken(errs[s].payload)]

\* a caller reading payload()
call_payload(s) ==
    /\ errs[s] # NoValue
    /\ eret' = [op |-> "payload", slot |-> s, val |-> payload(errs[s])]
    /\ UNCHANGED <<errs, taken>>

\* drop_payload(self) -> Error
drop_payload(s) ==
    /\ errs[s] # NoValue
    /\ errs' = [errs EXCEPT ![s] =
                   [ty |-> "NoPayload", code |-> errs[s].code,
                    msg |-> errs[s].msg, payload |-> None]]
    /\ taken' = [taken EXCEPT ![s] = NotTaken]
    /\ eret' = [op |-> "drop_payload", slot |-> s]

\* map that does not carry the message over
map_loses_msg(s, func) ==
    /\ errs[s] # NoValue
    /\ LET r == IF errs[s].payload.some
                THEN [payload |-> Some(func[errs[s].payload.val]),
                      applied |-> <<errs[s].payload.val>>]
                ELSE [payload |-> None, applied |-> <<>>]
       IN /\ errs' = [errs EXCEPT ![s] =
                         [ty |-> "T", code |-> errs[s].code,
                          msg |-> "", payload |-> r.payload]]
          /\ eret' = [op |-> "map", slot |-> s, func |-> func, applied |-> r.applied]
    /\ taken' = [taken EXCEPT ![s] = NotTaken]

\* map(self, func) -> ErrorWith<U>; applied lists the arguments func was
\* called with
map(s, func) ==
    /\ errs[s] # NoValue
    /\ LET r == IF errs[s].payload.some
                THEN [payload |-> Some(func[errs[s].payload.val]),
                      applied |-> <<errs[s].payload.val>>]
                ELSE [payload |-> None, applied |-> <<>>]
       IN /\ errs' = [errs EXCEPT ![s] =
                         [ty |-> "T", code |-> errs[s].code,
                          msg |-> errs[s].msg, payload |-> r.payload]]
          /\ eret' = [op |-> "map", slot |-> s, func |-> func, applied |-> r.applied]
    /\ taken' = [taken EXCEPT ![s] = NotTaken]

\* Error::into_with_payload(self, payload) -> ErrorWith<T>
into_with_payload(s, p) ==
    /\ errs[s] # NoValue
    /\ errs[s].ty = "NoPayload"
    /\ errs' = [errs EXCEPT ![s] =
                   [ty |-> "T", code |-> errs[s].code,
                    msg |-> errs[s].msg, payload |-> Some(p)]]
    /\ taken' = [taken EXCEPT ![s] = NotTaken]
    /\ eret' = [op |-> "into_with_payload", slot |-> s]

\* Error::into(self) -> ErrorWith<T>
into(s) ==
    /\ errs[s] # NoValue
    /\ errs[s].ty = "NoPayload"
    /\ errs' = [errs EXCEPT ![s] =
                   [ty |-> "T", code |-> errs[s].code,
                    msg |-> errs[s].msg, payload |-> None]]
    /\ taken' = [taken EXCEPT ![s] = NotTaken]
    /\ eret' = [op |-> "into", slot |-> s]

\* #[derive(Clone)]: the value in slot s copied into slot d
clone(s, d) ==
    /\ s # d
    /\ errs[s] # NoValue
    /\ errs' = [errs EXCEPT ![d] = errs[s]]
    /\ taken' = [taken EXCEPT ![d] = NotTaken]
    /\ eret' = [op |-> "clone", slot |-> d]

\* a caller comparing the two values with ==
call_eq ==
    /\ errs["x"] # NoValue
    /\ errs["y"] # NoValue
    /\ errs["x"].ty = errs["y"].ty
    /\ eret' = [op |-> "eq", val |-> ErrorWith_eq(errs["x"], errs["y"])]
    /\ UNCHANGED <<errs, taken>>

\* the error component before any error has been built
ErrIdle ==
    /\ errs = [s \in Slots |-> NoValue]
    /\ taken = [s \in Slots |-> NotTaken]
    /\ eret = [op |-> "none"]

\* the conversation component left alone
ConvIdle ==
    /\ Conversation_new
    /\ sent = <<>>
    /\ cret = [op |-> "new"]

InitConv ==
    /\ \/ Conversation_new
       \/ \E u \in Strings, p \in Strings : with_credentials(u, p)
    /\ sent = <<>>
    /\ cret = [op |-> "new"]
    /\ ErrIdle

NextConv ==
    /\ \/ clear_log
       \/ call_errors
       \/ call_infos
       \/ \E d \in {None} \cup {Some(u) : u \in Strings} : init(d)
       \/ \E m \in CStrs : prompt_echo_on(m)
       \/ \E m \in CStrs : prompt_echo_off(m)
       \/ \E m \in CStrs : text_info(m)
       \/ \E m \in CStrs : error_msg(m)
       \/ \E m \in CStrs : radio_prompt(m)
       \/ \E t \in {0}, d \in BinaryData : binary_prompt(t, d)
    /\ UNCHANGED errVars

SpecConv == InitConv /\ [][NextConv]_vars

InitError == ErrIdle /\ ConvIdle

NextError ==
    /\ \/ \E s \in Slots, c \in ReturnCode, r \in StrErrors,
             p \in {None} \cup {Some(v) : v \in Payloads} : with_payload(s, c, r, p)
       \/ \E s \in Slots, c \in ReturnCode, r \in StrErrors : Error_new(s, c, r)
       \/ \E s \in Slots, c \in ReturnCode : try_from(s, c)
       \/ \E s \in Slots : take_payload(s)
       \/ \E s \in Slots : call_payload(s)
       \/ \E s \in Slots : drop_payload(s)
       \/ \E s \in Slots, f \in Funcs : map(s, f)
       \/ \E s \in Slots, p \in Payloads : into_with_payload(s, p)
       \/ \E s \in Slots : into(s)
       \/ \E s \in Slots, d \in Slots : clone(s, d)
       \/ call_eq
    /\ UNCHANGED convVars

SpecError == InitError /\ [][NextError]_vars

(***************************************************************************)
(* Properties of Conversation, checked under SpecConv                      *)
(***************************************************************************)

\* number of entries with tag t among the first i entries of l
CountTag(l, i, t) == Cardinality({j \in 1..i : l[j].tag = t})

\* the bytes that occur in s
BytesOf(s) == {s[i] : i \in 1..Len(s)}

\* C3: errors() and infos() partition the log: errors() is exactly the
\* texts of the Error entries and infos() exactly the texts of the Info
\* entries, each in recording order; every entry is in exactly one of the
\* two, and the two lengths add up to log.len().
C3_ErrorsInfosPartition ==
    LET E == errors(log)
        I == infos(log)
        n == Len(log)
    IN /\ Len(E) = CountTag(log, n, "Error")
       /\ Len(I) = CountTag(log, n, "Info")
       /\ Len(E) + Len(I) = n
       /\ \A i \in 1..n :
             /\ (log[i].tag = "Error") # (log[i].tag = "Info")
             /\ log[i].tag = "Error" => E[CountTag(log, i, "Error")] = log[i].msg
             /\ log[i].tag = "Info" => I[CountTag(log, i, "Info")] = log[i].msg

\* a caller has collected errors() from a log holding both kinds of entry
C3_Witness ==
    /\ cret.op = "errors"
    /\ Len(cret.val) > 0
    /\ Len(infos(log)) > 0
    /\ log[1].tag = "Info"

\* the entry a received message is recorded as
EntryOf(call) ==
    IF call[1] = "text_info" THEN Info(call[2]) ELSE Error(call[2])

C4_LogIsHistory == log = [i \in 1..Len(sent) |-> EntryOf(sent[i])]

C4_Step ==
    /\ cret'.op = "text_info" =>
          \E m \in CStrs : log' = log \o <<Info(m)>>
    /\ cret'.op = "error_msg" =>
          \E m \in CStrs : log' = log \o <<Error(m)>>
    /\ cret'.op = "clear_log" => log' = <<>>
    /\ cret'.op \in {"init", "prompt_echo_on", "prompt_echo_off", "radio_prompt"}
          => log' = log

\* C4: the log is exactly the text_info / error_msg messages received since
\* the last clear_log (or construction), in call order, as Info / Error
\* entries: text_info and error_msg append one entry at the end, clear_log
\* empties the log, init, the two prompts and radio_prompt leave it alone.
C4_LogRecordsCalls == [](C4_LogIsHistory) /\ [][C4_Step]_vars

\* an Error entry has been recorded after an Info entry with another text
C4_Witness ==
    /\ Len(log) = 2
    /\ log[1].tag = "Info"
    /\ log[2].tag = "Error"
    /\ log[1].msg # log[2].msg
    /\ cret.op = "error_msg"

C5_Step ==
    cret'.op = "init" =>
        /\ username' = IF cret'.arg.some /\ username = <<>>
                       THEN cret'.arg.val
                       ELSE username
        /\ username # <<>> => username' = username

\* C5: init(default) sets the username to the default exactly when a
\* default is supplied and the username is empty, and leaves it unchanged
\* otherwise; a non-empty username survives every init.
C5_InitFillsEmptyOnly == [][C5_Step]_vars

\* init was given a default other than the username already set
C5_Witness ==
    /\ cret.op = "init"
    /\ cret.arg.some
    /\ cret.arg.val # <<>>
    /\ username # <<>>
    /\ username # cret.arg.val

\* what a prompt must answer from the stored string s
PromptAnswers(val, s) ==
    IF NUL \in BytesOf(s)
    THEN val = Err("CONV_ERR")
    ELSE /\ val.ok
         /\ to_bytes(val.val) = s
         /\ val.val[Len(val.val)] = NUL

\* C6: prompt_echo_on answers with the stored username and prompt_echo_off
\* with the stored password; each fails, with CONV_ERR, exactly when the
\* stored string holds a NUL.
C6_PromptsAnswer ==
    /\ cret.op = "prompt_echo_on" => PromptAnswers(cret.val, username)
    /\ cret.op = "prompt_echo_off" => PromptAnswers(cret.val, password)

\* the password was asked for and given, the username being different
C6_Witness ==
    /\ cret.op = "prompt_echo_off"
    /\ cret.val.ok
    /\ to_bytes(cret.val.val) = password
    /\ password # username
    /\ NUL \in BytesOf(username)

\* C7: radio_prompt always answers Ok(false) and binary_prompt always fails.
C7_RadioNoBinaryFails ==
    /\ cret.op = "radio_prompt" => cret.val = Ok(FALSE)
    /\ cret.op = "binary_prompt" => ~cret.val.ok

\* radio_prompt answered on a handler with credentials and a transcript
C7_Witness ==
    /\ cret.op = "radio_prompt"
    /\ username # <<>>
    /\ Len(log) > 0

C10_Step ==
    /\ password' = password
    /\ username' # username => (cret'.op = "init" /\ username = <<>>)
    /\ cret'.op \in {"prompt_echo_on", "prompt_echo_off", "radio_prompt"}
          => <<username', password', log'>> = <<username, password, log>>

\* C10: no operation changes the password; only an init made while the
\* username is empty changes the username; the prompts and radio_prompt
\* leave username, password and log unchanged (and so does clear_log for
\* username and password).
C10_Frame == [][C10_Step]_vars

\* clear_log has emptied the log of a handler that keeps its credentials
C10_Witness ==
    /\ cret.op = "clear_log"
    /\ log = <<>>
    /\ username # <<>>
    /\ password # <<>>

(***************************************************************************)
(* Properties of ErrorWith, checked under SpecError                        *)
(***************************************************************************)

C1_State ==
    /\ \A s \in Slots : taken[s].done => payload(errs[s]) = None
    /\ eret.op = "payload" /\ taken[eret.slot].done => eret.val = None

C1_Step ==
    eret'.op = "take_payload" =>
        LET s == eret'.slot
        IN /\ eret'.val = IF taken[s].done THEN None ELSE payload(errs[s])
           /\ taken'[s].done
           /\ payload(errs'[s]) = None

\* C1: the first take_payload() on a value returns its stored payload (None
\* if it has none); every payload() and take_payload() after it returns
\* None: the payload is handed out at most once and never reappears.
C1_PayloadTakenOnce == [](C1_State) /\ [][C1_Step]_vars

\* a second take_payload on a value whose first take_payload gave a payload
C1_Witness ==
    /\ eret.op = "take_payload"
    /\ eret.val = None
    /\ taken[eret.slot].done
    /\ taken[eret.slot].first.some

C2_State ==
    /\ \A s \in Slots : errs[s] # NoValue => code(errs[s]) # "SUCCESS"
    /\ eret.op \in {"with_payload", "new"} =>
          IF eret.code = "SUCCESS"
          THEN eret.out = "panic"
          ELSE eret.out = "value" /\ code(errs[eret.slot]) = eret.code
    /\ eret.op = "try_from" =>
          IF eret.code = "SUCCESS"
          THEN ~eret.val.ok
          ELSE /\ eret.val.ok
               /\ code(errs[eret.slot]) = eret.code
               /\ message(errs[eret.slot]) = None
               /\ payload(errs[eret.slot]) = None

C2_Step ==
    eret'.op \in {"take_payload", "drop_payload", "map", "into_with_payload", "into"}
        => /\ errs'[eret'.slot] # NoValue
           /\ code(errs'[eret'.slot]) = code(errs[eret'.slot])

\* C2: no ErrorWith value has code SUCCESS: with_payload and Error::new
\* panic on SUCCESS, try_from fails exactly on SUCCESS and otherwise gives
\* an error with that code, no message and no payload, and take_payload,
\* drop_payload, map, into_with_payload and into keep the code.
C2_NeverSuccess == [](C2_State) /\ [][C2_Step]_vars

\* with_payload was refused SUCCESS while another error value exists
C2_Witness ==
    /\ eret.op = "with_payload"
    /\ eret.code = "SUCCESS"
    /\ eret.out = "panic"
    /\ \E s \in Slots : errs[s] # NoValue

C8_Step ==
    eret'.op = "map" =>
        LET e == errs[eret'.slot]
            m == errs'[eret'.slot]
            f == eret'.func
        IN /\ code(m) = code(e)
           /\ message(m) = message(e)
           /\ payload(e) = None =>
                 payload(m) = None /\ eret'.applied = <<>>
           /\ payload(e) # None =>
                 /\ payload(m) = Some(f[payload(e).val])
                 /\ eret'.applied = <<payload(e).val>>

\* C8: map(f) keeps code() and message(); the payload becomes f(p) when a
\* payload p is present and stays absent otherwise; f is called once when
\* a payload is present and not at all otherwise.
C8_MapTransformsPayload == [][C8_Step]_vars

\* map has changed the payload of an error that has a message
C8_Witness ==
    /\ eret.op = "map"
    /\ Len(eret.applied) = 1
    /\ payload(errs[eret.slot]) = Some(eret.func[eret.applied[1]])
    /\ eret.func[eret.applied[1]] # eret.applied[1]
    /\ message(errs[eret.slot]) # None

C9_State ==
    eret.op = "eq" =>
        (eret.val <=> (/\ code(errs["x"]) = code(errs["y"])
                       /\ payload(errs["x"]) = payload(errs["y"])))

C9_Step ==
    ( /\ errs["x"] # NoValue
      /\ errs["y"] # NoValue
      /\ ErrorWith_eq(errs["x"], errs["y"])
      /\ eret'.op = "take_payload"
      /\ eret'.val # None )
    => ~ErrorWith_eq(errs'["x"], errs'["y"])

\* C9: two errors are equal exactly when their codes are equal and their
\* payloads are equal; the message takes no part; taking the payload out
\* of one of two equal payload-carrying errors makes them unequal.
C9_EqualityCodeAndPayload == [](C9_State) /\ [][C9_Step]_vars

\* two errors with a payload and different messages compared equal
C9_Witness ==
    /\ eret.op = "eq"
    /\ eret.val
    /\ payload(errs["x"]) # None
    /\ message(errs["x"]) # message(errs["y"])
    /\ message(errs["x"]) # None
    /\ message(errs["y"]) # None

====
